---- MODULE Spec2Model ----
(***************************************************************************)
(* Model of src/app.py: the rights-monitor bot.                            *)
(*                                                                         *)
(*   check_rights_loop   the 10 s poll loop (one coroutine)                *)
(*   remove_all_members  one purge task per asyncio.create_task            *)
(*   on_added, track_message_chats   the event hooks                       *)
(*                                                                         *)
(* asyncio runs one coroutine at a time and switches only at an await, so  *)
(* every action below is the code between two awaits of one coroutine: it  *)
(* takes the outcome of the await it was suspended in and runs to the next *)
(* await.  The platform (Telethon client) is the environment: each call    *)
(* returns or raises, chosen with \E.                                      *)
(***************************************************************************)
EXTENDS Integers, Sequences, FiniteSets, TLC

\* ---------------------------------------------------------------- bounds
NumGroups == 2          \* chat ids 1..NumGroups
NumUsers == 3           \* user ids 1..NumUsers in a small group
MaxTasks == 2           \* create_task calls in one run
MaxFaults == 2          \* platform calls that raise in one run
BigSize == 41           \* members of the large group
BigFaults == 1          \* platform calls that raise in a run on the large group

Groups == 1..NumGroups
Users == 1..NumUsers
BigUsers == 1..BigSize

\* (await bot.get_me()).id
Me == 2

\* removed % 20 == 0
ProgressEvery == 20

VARIABLES
    tracked_chats,   \* set of chat ids                      (app.py:33)
    cleaned_chats,   \* set of chat ids                      (app.py:34)
    tasks,           \* the tasks created by create_task, in launch order
    loop_pc,         \* where check_rights_loop is suspended
    pending,         \* rest of list(tracked_chats) in the current tick
    rights_groups,   \* ids appended to rights_groups in the current tick
    participants,    \* platform: the members of each chat
    faults,          \* raising platform calls still allowed in this run
    launches,        \* create_task calls still allowed in this run
    errPrints,       \* per chat: console lines printed by the probe's except
                     \* branches since the chat's last successful probe
    skipped,         \* chats for which a capable probe found the id in cleaned_chats
    last_probe       \* the poll loop's latest probe: its chat and what
                     \* get_entity / get_permissions answered

vars == <<tracked_chats, cleaned_chats, tasks, loop_pc, pending, rights_groups,
          participants, faults, launches, errPrints, skipped, last_probe>>

\* ------------------------------------------------------------- helpers
\* list(s) / the list get_participants returns: ascending ids (the i-th
\* element is the one with i - 1 smaller ones)
ListOf(S) ==
    [i \in 1..Cardinality(S) |->
        CHOOSE x \in S : Cardinality({y \in S : y < x}) = i - 1]

Range(s) == {s[i] : i \in 1..Len(s)}

TaskIds == 1..Len(tasks)

Terminal == {"completed", "aborted", "crashed"}

Active(t) == tasks[t].pc \notin Terminal

ActiveFor(g) == {t \in TaskIds : tasks[t].chat = g /\ Active(t)}

CompletedFor(g) == {t \in TaskIds : tasks[t].chat = g /\ tasks[t].pc = "completed"}

\* tasks of chat g that ended without cleaned_chats.add
EndedUncleanedFor(g) ==
    {t \in TaskIds : tasks[t].chat = g /\ tasks[t].pc \in {"aborted", "crashed"}}

\* ------------------------------------------------- the platform's answers
\* a raising call is taken from the run's budget
Raises(r) == r # "ok"

Budget(r) ==
    /\ Raises(r) => faults > 0
    /\ faults' = IF Raises(r) THEN faults - 1 ELSE faults

\* ------------------------------------------------ remove_all_members(chat)
\* A task's record holds the coroutine's locals (chat, members, removed, the
\* loop position idx, the await it is suspended in, pc) and what it has done
\* so far: kicked, the ids passed to kick_participant; kick_ok, those for
\* which the call returned; denied, a kick raised ChatAdminRequiredError;
\* progress, the counters of the progress messages sent; lost_notes, the
\* lost-rights messages sent; summary, the removed/total of the final
\* summary sent; marked, the task ran cleaned_chats.add; exc, the await whose
\* exception ended the task; retry, an earlier task of the chat had ended
\* uncleaned when this one was created.
NoSummary == [removed |-> -1, total |-> -1]

\* total recounted from the chat's members when the summary is written
SummaryOf_Recount(task) ==
    [removed |-> task.removed, total |-> Cardinality(participants[task.chat])]

\* "Removed: {removed}/{total}" with the task's own counters, not a recount
\* of the chat's members
SummaryOf(task) == [removed |-> task.removed, total |-> Len(task.members)]

\* asyncio.create_task(remove_all_members(entity)): the coroutine object,
\* suspended before its first await (get_participants)
NewTask(g) ==
    [chat |-> g, pc |-> "fetch", members |-> <<>>, idx |-> 0, removed |-> 0,
     kicked |-> {}, denied |-> FALSE, exc |-> "none", progress |-> <<>>,
     lost_notes |-> 0, retry |-> EndedUncleanedFor(g) # {},
     kick_ok |-> {}, summary |-> NoSummary, marked |-> FALSE]

\* for user in members: the next iteration, or the code after the loop
Advance(task, i) ==
    IF i > Len(task.members)
    THEN [task EXCEPT !.pc = "final", !.idx = i]
    ELSE [task EXCEPT !.pc = "getme", !.idx = i]

\* the self test left out: every member is kicked
NotSelf_Dropped(u) == TRUE

\* user.id != (await bot.get_me()).id
NotSelf(u) == u # Me

\* the counter tested before it is incremented
ProgressDue_BeforeIncrement(removed) == (removed - 1) % ProgressEvery = 0

\* removed % 20 == 0
ProgressDue(removed) == removed % ProgressEvery = 0

\* members = await bot.get_participants(chat); total = len(members); removed = 0
GetParticipants(t) ==
    /\ tasks[t].pc = "fetch"
    /\ \E r \in {"ok", "error", "admin"} :
        /\ Budget(r)
        /\ tasks' = [tasks EXCEPT ![t] =
              CASE r = "ok" ->
                     [@ EXCEPT !.pc = "startmsg",
                               !.members = ListOf(participants[tasks[t].chat]),
                               !.removed = 0]
                [] r = "error" -> [@ EXCEPT !.pc = "crashed", !.exc = "fetch"]
                [] r = "admin" -> [@ EXCEPT !.pc = "lost"]]
    /\ UNCHANGED <<tracked_chats, cleaned_chats, loop_pc, pending, rights_groups,
                   participants, launches, errPrints, skipped, last_probe>>

\* await bot.send_message(LOG_GROUP_ID, "Starting cleanup ..."), then the loop head
SendStart(t) ==
    /\ tasks[t].pc = "startmsg"
    /\ \E r \in {"ok", "error", "admin"} :
        /\ Budget(r)
        /\ tasks' = [tasks EXCEPT ![t] =
              CASE r = "ok" -> Advance(@, 1)
                [] r = "error" -> [@ EXCEPT !.pc = "crashed", !.exc = "start"]
                [] r = "admin" -> [@ EXCEPT !.pc = "lost"]]
    /\ UNCHANGED <<tracked_chats, cleaned_chats, loop_pc, pending, rights_groups,
                   participants, launches, errPrints, skipped, last_probe>>

\* (await bot.get_me()).id compared with user.id; a raise is caught by the
\* loop's except Exception and the loop continues
GetMe(t) ==
    /\ tasks[t].pc = "getme"
    /\ \E r \in {"ok", "error"} :
        /\ Budget(r)
        /\ tasks' = [tasks EXCEPT ![t] =
              IF r = "ok" /\ NotSelf(@.members[@.idx])
              THEN [@ EXCEPT !.pc = "kick"]
              ELSE Advance(@, @.idx + 1)]
    /\ UNCHANGED <<tracked_chats, cleaned_chats, loop_pc, pending, rights_groups,
                   participants, launches, errPrints, skipped, last_probe>>

\* kick_participant called outside the per-member try: a raise ends the task
KickParticipant_Uncaught(t) ==
    /\ tasks[t].pc = "kick"
    /\ \E r \in {"ok", "error", "admin"} :
        LET task == tasks[t]
            u == task.members[task.idx]
            tried == [task EXCEPT !.kicked = @ \cup {u}]
        IN /\ Budget(r)
           /\ tasks' = [tasks EXCEPT ![t] =
                 CASE r = "ok" ->
                        IF ProgressDue(task.removed + 1)
                        THEN [tried EXCEPT !.removed = @ + 1, !.pc = "progress",
                                           !.kick_ok = @ \cup {u}]
                        ELSE Advance([tried EXCEPT !.removed = @ + 1,
                                                   !.kick_ok = @ \cup {u}],
                                     task.idx + 1)
                   [] r = "error" -> [tried EXCEPT !.pc = "crashed", !.exc = "kick"]
                   [] r = "admin" -> [tried EXCEPT !.denied = TRUE, !.pc = "lost"]]
           /\ participants' =
                 IF r = "ok" THEN [participants EXCEPT ![task.chat] = @ \ {u}]
                 ELSE participants
    /\ UNCHANGED <<tracked_chats, cleaned_chats, loop_pc, pending, rights_groups,
                   launches, errPrints, skipped, last_probe>>

\* await bot.kick_participant(chat.id, user.id); removed += 1; every raise,
\* ChatAdminRequiredError included, is caught by the loop's except Exception
KickParticipant(t) ==
    /\ tasks[t].pc = "kick"
    /\ \E r \in {"ok", "error", "admin"} :
        LET task == tasks[t]
            u == task.members[task.idx]
            tried == [task EXCEPT !.kicked = @ \cup {u}]
        IN /\ Budget(r)
           /\ tasks' = [tasks EXCEPT ![t] =
                 CASE r = "ok" ->
                        IF ProgressDue(task.removed + 1)
                        THEN [tried EXCEPT !.removed = @ + 1, !.pc = "progress",
                                           !.kick_ok = @ \cup {u}]
                        ELSE Advance([tried EXCEPT !.removed = @ + 1,
                                                   !.kick_ok = @ \cup {u}],
                                     task.idx + 1)
                   [] r = "error" -> Advance(tried, task.idx + 1)
                   [] r = "admin" ->
                        Advance([tried EXCEPT !.denied = TRUE], task.idx + 1)]
           /\ participants' =
                 IF r = "ok" THEN [participants EXCEPT ![task.chat] = @ \ {u}]
                 ELSE participants
    /\ UNCHANGED <<tracked_chats, cleaned_chats, loop_pc, pending, rights_groups,
                   launches, errPrints, skipped, last_probe>>

\* await bot.send_message(LOG_GROUP_ID, "Progress: removed/total ..."); a raise
\* is caught by the loop's except Exception
SendProgress(t) ==
    /\ tasks[t].pc = "progress"
    /\ \E r \in {"ok", "error"} :
        /\ Budget(r)
        /\ tasks' = [tasks EXCEPT ![t] =
              Advance(IF r = "ok"
                      THEN [@ EXCEPT !.progress = Append(@, tasks[t].removed)]
                      ELSE @,
                      @.idx + 1)]
    /\ UNCHANGED <<tracked_chats, cleaned_chats, loop_pc, pending, rights_groups,
                   participants, launches, errPrints, skipped, last_probe>>

\* cleaned_chats.add moved before the summary message
SendSummary_AddFirst(t) ==
    /\ tasks[t].pc = "final"
    /\ \E r \in {"ok", "error", "admin"} :
        /\ Budget(r)
        /\ tasks' = [tasks EXCEPT ![t] =
              CASE r = "ok" -> [@ EXCEPT !.pc = "completed", !.marked = TRUE,
                                         !.summary = SummaryOf(tasks[t])]
                [] r = "error" -> [@ EXCEPT !.pc = "crashed", !.exc = "final",
                                            !.marked = TRUE]
                [] r = "admin" -> [@ EXCEPT !.pc = "lost", !.marked = TRUE]]
        /\ cleaned_chats' = cleaned_chats \cup {tasks[t].chat}
    /\ UNCHANGED <<tracked_chats, loop_pc, pending, rights_groups,
                   participants, launches, errPrints, skipped, last_probe>>

\* the summary sent, but the chat never put into cleaned_chats
SendSummary_NoMark(t) ==
    /\ tasks[t].pc = "final"
    /\ \E r \in {"ok", "error", "admin"} :
        /\ Budget(r)
        /\ tasks' = [tasks EXCEPT ![t] =
              CASE r = "ok" -> [@ EXCEPT !.pc = "completed",
                                         !.summary = SummaryOf(tasks[t])]
                [] r = "error" -> [@ EXCEPT !.pc = "crashed", !.exc = "final"]
                [] r = "admin" -> [@ EXCEPT !.pc = "lost"]]
    /\ UNCHANGED <<tracked_chats, cleaned_chats, loop_pc, pending, rights_groups,
                   participants, launches, errPrints, skipped, last_probe>>

\* await bot.send_message(LOG_GROUP_ID, msg); cleaned_chats.add(chat.id)
SendSummary(t) ==
    /\ tasks[t].pc = "final"
    /\ \E r \in {"ok", "error", "admin"} :
        /\ Budget(r)
        /\ tasks' = [tasks EXCEPT ![t] =
              CASE r = "ok" -> [@ EXCEPT !.pc = "completed", !.marked = TRUE,
                                         !.summary = SummaryOf(tasks[t])]
                [] r = "error" -> [@ EXCEPT !.pc = "crashed", !.exc = "final"]
                [] r = "admin" -> [@ EXCEPT !.pc = "lost"]]
        /\ cleaned_chats' =
              IF r = "ok" THEN cleaned_chats \cup {tasks[t].chat} ELSE cleaned_chats
    /\ UNCHANGED <<tracked_chats, loop_pc, pending, rights_groups,
                   participants, launches, errPrints, skipped, last_probe>>

\* except ChatAdminRequiredError: await bot.send_message("Lost ban rights ...")
SendLostRights(t) ==
    /\ tasks[t].pc = "lost"
    /\ \E r \in {"ok", "error"} :
        /\ Budget(r)
        /\ tasks' = [tasks EXCEPT ![t] =
              IF r = "ok"
              THEN [@ EXCEPT !.pc = "aborted", !.lost_notes = @ + 1]
              ELSE [@ EXCEPT !.pc = "crashed", !.exc = "lost"]]
    /\ UNCHANGED <<tracked_chats, cleaned_chats, loop_pc, pending, rights_groups,
                   participants, launches, errPrints, skipped, last_probe>>

remove_all_members ==
    \E t \in TaskIds :
        \/ GetParticipants(t)
        \/ SendStart(t)
        \/ GetMe(t)
        \/ KickParticipant(t)
        \/ SendProgress(t)
        \/ SendSummary(t)
        \/ SendLostRights(t)

\* -------------------------------------------------------- check_rights_loop
\* the ban_users test left out
Capable_AdminOnly(perms) == perms.is_admin

\* perms.is_admin and perms.ban_users
Capable(perms) == perms.is_admin /\ perms.ban_users

\* the cleaned_chats test left out: every capable probe launches
ShouldLaunch_Always(id) == TRUE

\* a chat is cleaned at most once per run, whatever became of its task
ShouldLaunch_Once(id) ==
    id \notin cleaned_chats /\ {t \in TaskIds : tasks[t].chat = id} = {}

\* entity.id not in cleaned_chats
ShouldLaunch(id) == id \notin cleaned_chats

\* what a probe of chat id came to: a raise of get_entity or get_permissions,
\* or the permissions get_permissions returned
ProbeFailed(id) ==
    [chat |-> id, ok |-> FALSE, is_admin |-> FALSE, ban_users |-> FALSE]

ProbeAnswered(id, perms) ==
    [chat |-> id, ok |-> TRUE, is_admin |-> perms.is_admin, ban_users |-> perms.ban_users]

\* no probe yet
NoProbe == ProbeFailed(0)

\* the top of `while True` up to its first await
EnterTick ==
    IF tracked_chats = {}
    THEN /\ loop_pc' = "emptymsg"
         /\ UNCHANGED <<pending, rights_groups>>
    ELSE /\ loop_pc' = "entity"
         /\ pending' = ListOf(tracked_chats)
         /\ rights_groups' = <<>>

\* `continue` / the end of the for body: the next chat_id, or the status message
NextChat ==
    /\ pending' = Tail(pending)
    /\ loop_pc' = IF Tail(pending) = <<>> THEN "status" ELSE "entity"

\* main(): await bot.send_message("Bot started ..."); await check_rights_loop()
Main ==
    /\ loop_pc = "main"
    /\ \E r \in {"ok", "error"} :
        /\ Budget(r)
        /\ IF r = "ok" THEN EnterTick
           ELSE /\ loop_pc' = "exited"
                /\ UNCHANGED <<pending, rights_groups>>
    /\ UNCHANGED <<tracked_chats, cleaned_chats, tasks, participants, launches,
                   errPrints, skipped, last_probe>>

\* await asyncio.sleep(10) returns (line 118 or line 153)
Sleep ==
    /\ loop_pc = "sleep"
    /\ EnterTick
    /\ UNCHANGED <<tracked_chats, cleaned_chats, tasks, participants, faults,
                   launches, errPrints, skipped, last_probe>>

\* await bot.send_message("No tracked groups yet ...")
SendEmptyStatus ==
    /\ loop_pc = "emptymsg"
    /\ \E r \in {"ok", "error"} :
        /\ Budget(r)
        /\ loop_pc' = IF r = "ok" THEN "sleep" ELSE "handler"
    /\ UNCHANGED <<tracked_chats, cleaned_chats, tasks, pending, rights_groups,
                   participants, launches, errPrints, skipped, last_probe>>

\* entity = await bot.get_entity(chat_id); on a raise: print, continue
GetEntity ==
    /\ loop_pc = "entity"
    /\ \E r \in {"ok", "error"} :
        /\ Budget(r)
        /\ IF r = "ok"
           THEN /\ loop_pc' = "perms"
                /\ UNCHANGED <<pending, errPrints, last_probe>>
           ELSE /\ NextChat
                /\ errPrints' = [errPrints EXCEPT ![Head(pending)] = @ + 1]
                /\ last_probe' = ProbeFailed(Head(pending))
    /\ UNCHANGED <<tracked_chats, cleaned_chats, tasks, rights_groups,
                   participants, launches, skipped>>

\* the task awaited instead of created: `await remove_all_members(entity)`
\* keeps the loop suspended in the task
GetPermissions_Awaiting ==
    /\ loop_pc = "perms"
    /\ LET id == Head(pending) IN
       \/ /\ Budget("error")
          /\ NextChat
          /\ errPrints' = [errPrints EXCEPT ![id] = @ + 1]
          /\ last_probe' = ProbeFailed(id)
          /\ UNCHANGED <<tasks, rights_groups, launches, skipped>>
       \/ \E perms \in [is_admin : BOOLEAN, ban_users : BOOLEAN] :
          /\ Budget("ok")
          /\ errPrints' = [errPrints EXCEPT ![id] = 0]
          /\ last_probe' = ProbeAnswered(id, perms)
          /\ IF Capable(perms)
             THEN /\ rights_groups' = Append(rights_groups, id)
                  /\ IF ShouldLaunch(id)
                     THEN /\ launches > 0
                          /\ launches' = launches - 1
                          /\ tasks' = Append(tasks, NewTask(id))
                          /\ loop_pc' = "await_task"
                          /\ UNCHANGED <<skipped, pending>>
                     ELSE /\ skipped' = skipped \cup {id}
                          /\ NextChat
                          /\ UNCHANGED <<tasks, launches>>
             ELSE /\ NextChat
                  /\ UNCHANGED <<tasks, rights_groups, launches, skipped>>
    /\ UNCHANGED <<tracked_chats, cleaned_chats, participants>>

\* perms = await bot.get_permissions(entity.id, "me"); on a raise: print,
\* continue; else the rest of the for body
GetPermissions ==
    /\ loop_pc = "perms"
    /\ LET id == Head(pending) IN
       \/ /\ Budget("error")
          /\ NextChat
          /\ errPrints' = [errPrints EXCEPT ![id] = @ + 1]
          /\ last_probe' = ProbeFailed(id)
          /\ UNCHANGED <<tasks, rights_groups, launches, skipped>>
       \/ \E perms \in [is_admin : BOOLEAN, ban_users : BOOLEAN] :
          /\ Budget("ok")
          /\ NextChat
          /\ errPrints' = [errPrints EXCEPT ![id] = 0]
          /\ last_probe' = ProbeAnswered(id, perms)
          /\ IF Capable(perms)
             THEN /\ rights_groups' = Append(rights_groups, id)
                  /\ IF ShouldLaunch(id)
                     THEN /\ launches > 0
                          /\ launches' = launches - 1
                          /\ tasks' = Append(tasks, NewTask(id))
                          /\ UNCHANGED skipped
                     ELSE /\ skipped' = skipped \cup {id}
                          /\ UNCHANGED <<tasks, launches>>
             ELSE UNCHANGED <<tasks, rights_groups, launches, skipped>>
    /\ UNCHANGED <<tracked_chats, cleaned_chats, participants>>

\* await bot.send_message(LOG_GROUP_ID, "Status Update", ...) at the end of a tick
SendStatus ==
    /\ loop_pc = "status"
    /\ \E r \in {"ok", "error"} :
        /\ Budget(r)
        /\ loop_pc' = IF r = "ok" THEN "sleep" ELSE "handler"
    /\ UNCHANGED <<tracked_chats, cleaned_chats, tasks, pending, rights_groups,
                   participants, launches, errPrints, skipped, last_probe>>

\* except Exception as e: await bot.send_message("Error during rights check")
SendLoopError ==
    /\ loop_pc = "handler"
    /\ \E r \in {"ok", "error"} :
        /\ Budget(r)
        /\ loop_pc' = IF r = "ok" THEN "sleep" ELSE "crashed"
    /\ UNCHANGED <<tracked_chats, cleaned_chats, tasks, pending, rights_groups,
                   participants, launches, errPrints, skipped, last_probe>>

check_rights_loop ==
    \/ Main
    \/ Sleep
    \/ SendEmptyStatus
    \/ GetEntity
    \/ GetPermissions
    \/ SendStatus
    \/ SendLoopError

\* ------------------------------------------------------------ event hooks
\* a hook that probes the chat it adds and launches its task at once
on_added_Probing(g) ==
    /\ tracked_chats' = tracked_chats \cup {g}
    /\ \E perms \in [is_admin : BOOLEAN, ban_users : BOOLEAN] :
        /\ last_probe' = ProbeAnswered(g, perms)
        /\ IF Capable(perms) /\ ShouldLaunch(g) /\ launches > 0
           THEN /\ tasks' = Append(tasks, NewTask(g))
                /\ launches' = launches - 1
           ELSE UNCHANGED <<tasks, launches>>
    /\ UNCHANGED <<cleaned_chats, loop_pc, pending, rights_groups,
                   participants, faults, errPrints, skipped>>

\* on_added, for an event that says the bot itself was added to chat g:
\* tracked_chats.add(chat.id).  The handler probes nothing and launches
\* nothing; its awaits (get_me, get_chat, the "Added to new group" message)
\* change no state, and a raise in them leaves tracked_chats as it was.
on_added(g) ==
    /\ tracked_chats' = tracked_chats \cup {g}
    /\ UNCHANGED <<cleaned_chats, tasks, loop_pc, pending, rights_groups,
                   participants, faults, launches, errPrints, skipped, last_probe>>

\* track_message_chats, for a message from group or channel g:
\* tracked_chats.add(chat.id)
track_message_chats(g) ==
    /\ tracked_chats' = tracked_chats \cup {g}
    /\ UNCHANGED <<cleaned_chats, tasks, loop_pc, pending, rights_groups,
                   participants, faults, launches, errPrints, skipped, last_probe>>

\* ------------------------------------------------------------------ runs
\* Two kinds of run.  In the first every chat has the members Users and up
\* to MaxTasks tasks are created, so that tasks overlap; in the second chat 1
\* has the members BigUsers and one task is created, so that a task passes
\* 20 and 40 removals.  The bot (Me) is a member of every chat.
Configs ==
    { [parts |-> [g \in Groups |-> Users], launches |-> MaxTasks, faults |-> MaxFaults],
      [parts |-> [g \in Groups |-> IF g = 1 THEN BigUsers ELSE {Me}],
       launches |-> 1, faults |-> BigFaults] }

\* the module-level state after import: tracked_chats seeded from
\* TRACKED_CHAT_IDS, cleaned_chats empty, no task, main() about to start
Init ==
    /\ tracked_chats \in SUBSET Groups
    /\ cleaned_chats = {}
    /\ tasks = <<>>
    /\ loop_pc = "main"
    /\ pending = <<>>
    /\ rights_groups = <<>>
    /\ errPrints = [g \in Groups |-> 0]
    /\ skipped = {}
    /\ last_probe = NoProbe
    /\ \E c \in Configs :
        /\ participants = c.parts
        /\ launches = c.launches
        /\ faults = c.faults

Next ==
    \/ check_rights_loop
    \/ remove_all_members
    \/ \E g \in Groups : on_added(g)
    \/ \E g \in Groups : track_message_chats(g)

Spec == Init /\ [][Next]_vars

\* ------------------------------------------------------------ properties

\* C1: for every group, at every instant, at most one purge task
\* (remove_all_members) of that group is active.
C1_AtMostOneActiveTask ==
    \A g \in Groups : Cardinality(ActiveFor(g)) <= 1

\* C2: once kick_participant has raised ChatAdminRequiredError in a task, the
\* task is in its lost-rights branch (or has ended there): it attempts no
\* further member and does not mark the group cleaned.
C2_RightsLostAborts ==
    \A t \in TaskIds :
        tasks[t].denied =>
            \/ tasks[t].pc \in {"lost", "aborted"}
            \/ tasks[t].pc = "crashed" /\ tasks[t].exc = "lost"

\* C3: the bot's own id is never passed to kick_participant, by any task, at
\* any point of its run, also when get_me raises for some member.
C3_NeverKicksSelf ==
    \A t \in TaskIds : Me \notin tasks[t].kicked

\* a completed task whose snapshot held the bot, that kicked somebody, and in
\* which get_me raised for a member (the only way a member is not attempted)
C3_Witness ==
    \E t \in TaskIds :
        /\ tasks[t].pc = "completed"
        /\ Me \in Range(tasks[t].members)
        /\ tasks[t].kicked # {}
        /\ \E u \in Range(tasks[t].members) \ {Me} : u \notin tasks[t].kicked

\* C4: for every group, at most one purge task ever reaches completion
\* (final summary sent and cleaned_chats.add).
C4_AtMostOneCompleted ==
    \A g \in Groups : Cardinality(CompletedFor(g)) <= 1

\* C5: a chat id is in cleaned_chats only through a task that completed, and a
\* task completes only after attempting the removal of every member of its
\* snapshot other than the bot.
C5_CleanedOnlyAfterFullPass ==
    /\ cleaned_chats = {tasks[t].chat : t \in {u \in TaskIds : tasks[u].pc = "completed"}}
    /\ \A t \in TaskIds :
          tasks[t].pc = "completed" =>
              tasks[t].kicked = Range(tasks[t].members) \ {Me}

\* C6: no step launches a task for a chat that is in cleaned_chats.
C6_NoLaunchOnceCleaned ==
    [][\A i \in (Len(tasks) + 1)..Len(tasks') : tasks'[i].chat \notin cleaned_chats]_vars

\* a capable probe of a cleaned chat has happened and launched nothing
C6_Witness ==
    \E g \in skipped : g \in cleaned_chats /\ ActiveFor(g) = {}

\* C7: a run of consecutive failed probes of one group is reported once: the
\* first failure is reported, the following identical ones are suppressed.
C7_OneReportPerFailureRun ==
    \A g \in Groups : errPrints[g] <= 1

\* C8: when a task of a group has ended without marking it cleaned and the
\* group is not in cleaned_chats, a poll-tick probe of the group that reports
\* ban rights launches a new task, which starts at get_participants with no
\* snapshot and a zero counter.
C8_RetryAfterUncleanedEnd ==
    [][\A g \in Groups :
          ( /\ loop_pc = "perms"
            /\ Head(pending) = g
            /\ rights_groups' = Append(rights_groups, g)
            /\ EndedUncleanedFor(g) # {}
            /\ g \notin cleaned_chats )
          => /\ Len(tasks') = Len(tasks) + 1
             /\ LET new == tasks'[Len(tasks')]
                IN /\ new.chat = g
                   /\ new.pc = "fetch"
                   /\ new.members = <<>>
                   /\ new.removed = 0
                   /\ new.kicked = {}]_vars

\* a task launched after an earlier task of its chat ended uncleaned has
\* fetched the member list again: its snapshot is the chat's members now
C8_Witness ==
    \E t \in TaskIds :
        /\ tasks[t].retry
        /\ tasks[t].pc = "startmsg"
        /\ tasks[t].members = ListOf(participants[tasks[t].chat])
        /\ Len(tasks[t].members) > 1

\* C9: no purge task is ended by the failure of its start or final-summary
\* notification: such a failure is swallowed and the task goes on.
C9_NotificationFailureSwallowed ==
    \A t \in TaskIds :
        tasks[t].pc = "crashed" => tasks[t].exc \notin {"start", "final"}

\* C10: no failure propagates out of check_rights_loop.
C10_LoopNeverExits ==
    loop_pc # "crashed"

\* C11 (as claimed): an event hook that adds an untracked group probes that
\* group itself, in the same step.
C11_HookProbes ==
    [][\A g \in Groups :
          (g \notin tracked_chats /\ g \in tracked_chats') => last_probe'.chat = g]_vars

\* C11 (amended): an event hook only adds the chat id to tracked_chats: it
\* probes nothing and launches nothing.  Every tick probes the chats that
\* were tracked when it started, and a task is launched only by the poll
\* loop, on get_permissions' answer for the chat it is probing.
C11_HookOnlyTracks ==
    [][ /\ tracked_chats' # tracked_chats =>
              UNCHANGED <<tasks, last_probe, cleaned_chats, loop_pc, pending, rights_groups>>
        /\ (loop_pc \in {"main", "sleep"} /\ loop_pc' = "entity") =>
              pending' = ListOf(tracked_chats)
        /\ last_probe' # last_probe =>
              loop_pc \in {"entity", "perms"} /\ last_probe'.chat = Head(pending)
        /\ Len(tasks') > Len(tasks) =>
              /\ loop_pc = "perms"
              /\ Len(tasks') = Len(tasks) + 1
              /\ tasks'[Len(tasks')].chat = Head(pending) ]_vars

\* a group added by a hook after the tick's list was taken: it is tracked,
\* the running tick (which is probing another chat) does not hold it, and no
\* probe has been answered and no task launched so far
C11_Witness ==
    \E g \in tracked_chats :
        /\ loop_pc = "perms"
        /\ g \notin Range(pending)
        /\ last_probe = NoProbe
        /\ tasks = <<>>

\* C12: within one task every progress message carries a removed counter
\* that is a positive multiple of 20, the counters of successive progress
\* messages strictly increase, none exceeds the task's counter, and a task
\* with fewer than 20 successful removals has sent no progress message.
C12_ProgressMultiplesOf20 ==
    \A t \in TaskIds :
        LET p == tasks[t].progress IN
        /\ \A i \in 1..Len(p) :
              /\ p[i] > 0
              /\ p[i] % 20 = 0
              /\ p[i] <= tasks[t].removed
              /\ i > 1 => p[i - 1] < p[i]
        /\ Cardinality(tasks[t].kick_ok) < 20 => p = <<>>

\* a task has sent the progress messages for 20 and for 40 removals
C12_Witness ==
    \E t \in TaskIds : tasks[t].progress = <<20, 40>>

\* operator-channel messages a task has sent: the start message (sent once the
\* member loop was entered), the progress messages, the lost-rights messages
\* and the final summary
OperatorMessages(t) ==
    (IF tasks[t].idx >= 1 THEN 1 ELSE 0) + Len(tasks[t].progress)
        + tasks[t].lost_notes + (IF tasks[t].summary # NoSummary THEN 1 ELSE 0)

\* C13: a kick_participant call that raises (other than for lost rights)
\* leaves the removed counter as it was, sends no operator message, and the
\* task goes on with the next member of its snapshot, or with the summary
\* after the last one: it is not ended.
C13_TransientFailureNonFatal ==
    [][\A t \in TaskIds :
          ( /\ tasks[t].pc = "kick"
            /\ tasks'[t] # tasks[t]
            /\ tasks'[t].kick_ok = tasks[t].kick_ok
            /\ tasks'[t].denied = tasks[t].denied )
          => /\ tasks'[t].removed = tasks[t].removed
             /\ OperatorMessages(t)' = OperatorMessages(t)
             /\ tasks'[t].members = tasks[t].members
             /\ tasks'[t].idx = tasks[t].idx + 1
             /\ tasks'[t].pc = IF tasks[t].idx < Len(tasks[t].members)
                               THEN "getme" ELSE "final"
             /\ tasks'[t].kicked = tasks[t].kicked \cup {tasks[t].members[tasks[t].idx]}]_vars

\* a completed task whose first removal call raised: that member is still in
\* the chat and not counted, and every other member but the bot was
\* attempted after it and removed
C13_Witness ==
    \E t \in TaskIds :
        LET task == tasks[t] IN
        /\ task.pc = "completed"
        /\ ~task.denied
        /\ Len(task.members) >= 3
        /\ task.members[1] \in task.kicked \ task.kick_ok
        /\ task.kicked = Range(task.members) \ {Me}
        /\ task.kick_ok = task.kicked \ {task.members[1]}
        /\ task.removed = Cardinality(task.kick_ok)

\* C14: a task whose member-list fetch failed has reported the failure to
\* the operator channel, has attempted no removal and has not marked the
\* group cleaned.
C14_FetchFailureReported ==
    \A t \in TaskIds :
        (tasks[t].pc = "crashed" /\ tasks[t].exc = "fetch") =>
            /\ OperatorMessages(t) >= 1
            /\ tasks[t].kicked = {}
            /\ ~tasks[t].marked

\* C15: when get_permissions answers that the bot is not an admin, or is an
\* admin without ban rights, the step launches no task and leaves
\* tracked_chats, cleaned_chats and rights_groups as they were; the chat
\* stays tracked, and every tick starts from the list of all tracked chats,
\* so the chat is probed again in the next tick.
C15_NotCapableNoOp ==
    [][ /\ ( /\ loop_pc = "perms"
             /\ pending' = Tail(pending)
             /\ last_probe'.ok
             /\ ~(last_probe'.is_admin /\ last_probe'.ban_users) )
           => /\ last_probe'.chat = Head(pending)
              /\ UNCHANGED <<tasks, tracked_chats, cleaned_chats, rights_groups, skipped>>
              /\ Head(pending) \in tracked_chats'
        /\ (loop_pc = "sleep" /\ loop_pc' = "entity") =>
              pending' = ListOf(tracked_chats) ]_vars

\* a chat whose latest probe said admin without ban rights, and for which
\* nothing was launched, is being probed again by a later tick
C15_Witness ==
    /\ loop_pc = "perms"
    /\ last_probe.chat = Head(pending)
    /\ last_probe.ok /\ last_probe.is_admin /\ ~last_probe.ban_users
    /\ tasks = <<>>
    /\ cleaned_chats = {}

\* C16: in a task's final summary, total is the size of the snapshot taken
\* at the start of the task and removed is the number of removal calls of
\* the task that returned; when every member but the bot was removed and the
\* bot is in the snapshot, removed = total - 1.
C16_SummaryCounts ==
    \A t \in TaskIds :
        LET task == tasks[t] IN
        task.summary # NoSummary =>
            /\ task.summary.total = Len(task.members)
            /\ task.summary.removed = Cardinality(task.kick_ok)
            /\ (Me \in Range(task.members) /\ task.kick_ok = Range(task.members) \ {Me})
                  => task.summary.removed = task.summary.total - 1

\* the summary of a task on the large chat in which every removal succeeded
C16_Witness ==
    \E t \in TaskIds :
        /\ Me \in Range(tasks[t].members)
        /\ tasks[t].summary = [removed |-> BigSize - 1, total |-> BigSize]
        /\ Cardinality(participants[tasks[t].chat]) = 1

\* C17: while a purge task is running (whatever await it is suspended in,
\* and even if it never takes another step), check_rights_loop, unless it
\* has ended, can take its next step: it never waits for a task.
C17_LoopNeverWaitsForTask ==
    ((\E t \in TaskIds : Active(t)) /\ loop_pc \notin {"crashed", "exited"})
        => ENABLED check_rights_loop

\* a task launched for chat 1 has not run at all (it is still before
\* get_participants), and meanwhile the loop has probed chat 2, slept, and
\* is probing chat 1 again in a later tick
C17_Witness ==
    /\ \E t \in TaskIds : tasks[t].chat = 1 /\ tasks[t].pc = "fetch"
    /\ \A t \in TaskIds : tasks[t].pc = "fetch"
    /\ last_probe.chat = 2
    /\ loop_pc = "perms"
    /\ Head(pending) = 1

\* ------------------------------------------------------------- liveness
\* The runs C18 is about. In the chat it watches, chat 1, no platform call
\* raises and every probe reports is_admin and ban_users; the loop's own
\* notifications to the owner (start, status) do not raise either. Calls of
\* other chats may raise as in Spec. A launch for another chat leaves one of
\* the model's `launches` for chat 1.
Reliable ==
    /\ faults' # faults =>
          \/ /\ tasks' = tasks
             /\ loop_pc \in {"entity", "perms"}
             /\ Head(pending) # 1
          \/ \E t \in TaskIds : tasks'[t] # tasks[t] /\ tasks[t].chat # 1
    /\ (loop_pc = "perms" /\ pending' # pending /\ Head(pending) = 1)
          => last_probe'.ok /\ last_probe'.is_admin /\ last_probe'.ban_users
    /\ (Len(tasks') > Len(tasks) /\ tasks'[Len(tasks')].chat # 1)
          => launches > 1

\* the loop's steps in such a run; SendLoopError is not among them, the
\* handler being entered only when one of the loop's own notifications raises
ReliableLoop ==
    \/ Main /\ Reliable
    \/ Sleep /\ Reliable
    \/ SendEmptyStatus /\ Reliable
    \/ GetEntity /\ Reliable
    \/ GetPermissions /\ Reliable
    \/ SendStatus /\ Reliable

\* the step of task t from the await it is suspended in to its next one
ReliableTask(t) ==
    \/ t \in TaskIds /\ GetParticipants(t) /\ Reliable
    \/ t \in TaskIds /\ SendStart(t) /\ Reliable
    \/ t \in TaskIds /\ GetMe(t) /\ Reliable
    \/ t \in TaskIds /\ KickParticipant(t) /\ Reliable
    \/ t \in TaskIds /\ SendProgress(t) /\ Reliable
    \/ t \in TaskIds /\ SendSummary(t) /\ Reliable
    \/ t \in TaskIds /\ SendLostRights(t) /\ Reliable

LiveNext ==
    \/ ReliableLoop
    \/ \E t \in 1..MaxTasks : ReliableTask(t)
    \/ \E g \in Groups : on_added(g)
    \/ \E g \in Groups : track_message_chats(g)

\* asyncio runs every ready coroutine in turn: the loop (after each await
\* returns) and each created task take their next step
Fairness ==
    /\ WF_vars(ReliableLoop)
    /\ \A t \in 1..MaxTasks : WF_vars(ReliableTask(t))

LiveSpec == Init /\ [][LiveNext]_vars /\ Fairness

\* C18: under LiveSpec (fair scheduling of the loop and of every task, all
\* calls of chat 1 succeeding, the bot always capable there), whenever chat 1
\* is in tracked_chats it is eventually in cleaned_chats.
C18_EventuallyCleaned == (1 \in tracked_chats) ~> (1 \in cleaned_chats)

\* chat 1 was tracked, a task took the snapshot of its 41 members, removed
\* the 40 others and marked it cleaned, while a call of chat 2 raised
C18_Witness ==
    /\ 1 \in tracked_chats
    /\ 1 \in cleaned_chats
    /\ \E t \in TaskIds :
          /\ tasks[t].chat = 1
          /\ tasks[t].marked
          /\ tasks[t].summary = [removed |-> BigSize - 1, total |-> BigSize]
    /\ faults < BigFaults

\* C19: once a chat is in cleaned_chats, no task issues kick_participant for
\* a member of it (no task goes from its get_me await on to the
\* kick_participant await).
C19_NoKickOnceCleaned ==
    [][\A t \in TaskIds :
          tasks[t].chat \in cleaned_chats
              => ~(tasks[t].pc = "getme" /\ tasks'[t].pc = "kick")]_vars

\* C20: for every task, the "lost ban rights" notification and marking the
\* chat cleaned exclude each other, and the notification is sent at most once.
C20_LostXorCleaned ==
    \A t \in TaskIds :
        /\ tasks[t].lost_notes <= 1
        /\ ~(tasks[t].marked /\ tasks[t].lost_notes > 0)
        /\ tasks[t].marked => tasks[t].pc = "completed"
        /\ tasks[t].lost_notes > 0 => tasks[t].pc = "aborted"

\* a task went through all its members, its summary message raised
\* ChatAdminRequiredError, and it sent the lost-rights notification instead
\* of marking; another task of the chat marked it cleaned
C20_Witness ==
    \E t, u \in TaskIds :
        /\ tasks[t].chat = tasks[u].chat
        /\ tasks[t].lost_notes = 1
        /\ ~tasks[t].marked
        /\ ~tasks[t].denied
        /\ tasks[t].idx = Len(tasks[t].members) + 1
        /\ tasks[t].kicked # {}
        /\ tasks[u].marked
        /\ tasks[u].lost_notes = 0

====
